---- MODULE Spec2Model ----
(***************************************************************************)
(* The image ingestion pipeline of maukmn-api: the processing engine of    *)
(* internal/imaging/service.go (job channel, worker pool, startup          *)
(* recovery, retries), the metadata store of                               *)
(* internal/repositories/imaging_repository.go with the constraints of the *)
(* image pipeline schema, the blob store of internal/storage/r2_client.go, *)
(* the validator and the rendition policy.                                 *)
(*                                                                         *)
(* Durable state: jobs, assets, derivs (SQL tables) and objects (bucket).  *)
(* Process state: jobQueue, running, retries, resume, lost by a restart.   *)
(***************************************************************************)
EXTENDS Integers, Sequences, FiniteSets, TLC

VARIABLES
    jobs,       \* image_processing_jobs: rows in created_at order, index = job id
    assets,     \* image_assets: set of rows
    derivs,     \* image_derivatives: set of rows
    objects,    \* the bucket: storage key -> bytes
    jobQueue,   \* Service.jobQueue: the buffered channel of *ProcessingJob
    running,    \* the workers inside processJob, one record per busy worker
    retries,    \* the retry goroutines of handleJobFailure sleeping in their backoff
    resume,     \* the resumePendingJobs goroutine
    nextId,     \* the next asset id uuid.New() hands out
    owed,       \* the jobs that were neither ready nor failed when the engine last
                \* started and that it has not enqueued since
    env,        \* the environment of the run: cap (capacity jobQueue was made
                \* with), keys (staging keys the clients finalize), faults and
                \* restarts (failures and process restarts still to come)
    stopped,    \* Stop was called: s.ctx is cancelled and jobQueue is closed
    panicked    \* the goroutines that panicked with no recover on their stack,
                \* which ends the process

vars == <<jobs, assets, derivs, objects, jobQueue, running, retries, resume,
          nextId, owed, env, stopped, panicked>>

store == <<jobs, assets, derivs, objects>>

(***************************************************************************)
(* Bounds of the model.                                                    *)
(***************************************************************************)
MaxJobs == 2        \* job rows ever created
QueueCap == 1       \* capacity of jobQueue, scaled down from 1000
MaxFaults == 1      \* injected blob-store / transformer / database failures
MaxRestarts == 1    \* process restarts
NumWorkers == 2     \* workerCount passed to NewService

(***************************************************************************)
(* Program constants.                                                      *)
(***************************************************************************)
ChannelCap == 1000          \* make(chan *ProcessingJob, 1000)
MaxAttempts == 3            \* handleJobFailure: job.Attempts < 3
MaxBytes == 15728640        \* GetCategoryLimits: 15 * 1024 * 1024
MaxDimension == 6000        \* GetCategoryLimits
MaxPixels == 67108864       \* ValidateImage: 64 * 1024 * 1024
SemCap == 10                \* processJob: sem := make(chan struct{}, 10)

StatusPending == "pending"
StatusDownloading == "downloading"
StatusProcessing == "processing"
StatusUploading == "uploading"
StatusReady == "ready"
StatusFailed == "failed"

NULL == "NULL"              \* SQL NULL of a scalar column
Nil == <<>>                 \* a nil pointer / NULL reference
Ptr(x) == <<x>>             \* a pointer to x
Deref(ptr) == ptr[1]

(***************************************************************************)
(* Uploaded bytes.  An image stands for one byte string; distinct images   *)
(* have distinct SHA-256 digests.  Digests are sequences of hex digits so  *)
(* that hash[:2] is computed.                                              *)
(***************************************************************************)
Images == {"imgA", "imgTiny", "imgHuge", "imgB", "imgWide", "imgHeic", "imgCover"}

ImageInfo(img) ==
    CASE img = "imgA"    -> [size |-> 4096, format |-> "jpeg", width |-> 64,
                             height |-> 64, alpha |-> FALSE,
                             sha |-> <<"a", "b", "1", "7">>]
      [] img = "imgTiny" -> [size |-> 512, format |-> "png", width |-> 32,
                             height |-> 32, alpha |-> TRUE,
                             sha |-> <<"c", "d", "2", "9">>]
      [] img = "imgHuge" -> [size |-> 20971520, format |-> "jpeg", width |-> 4000,
                             height |-> 3000, alpha |-> FALSE,
                             sha |-> <<"e", "f", "3", "0">>]
      [] img = "imgB"    -> [size |-> 65536, format |-> "png", width |-> 256,
                             height |-> 256, alpha |-> TRUE,
                             sha |-> <<"0", "4", "a", "a">>]
      [] img = "imgWide" -> [size |-> 131072, format |-> "png", width |-> 7000,
                             height |-> 100, alpha |-> FALSE,
                             sha |-> <<"9", "9", "5", "e">>]
      [] img = "imgHeic" -> [size |-> 262144, format |-> "heic", width |-> 6500,
                             height |-> 4000, alpha |-> FALSE,
                             sha |-> <<"7", "1", "c", "2">>]
      [] img = "imgCover" -> [size |-> 32768, format |-> "jpeg", width |-> 320,
                             height |-> 180, alpha |-> FALSE,
                             sha |-> <<"3", "2", "0", "c">>]

AllowedFormats == {"jpeg", "png", "webp", "gif", "heic", "avif"}

\* image.DecodeConfig: the decoders the package registers are image/gif,
\* image/jpeg, image/png and x/image/webp; any other format is an error (Nil).
DecodeConfig(img) ==
    LET i == ImageInfo(img) IN
    IF i.format \in {"gif", "jpeg", "png", "webp"}
      THEN Ptr([width |-> i.width, height |-> i.height])
      ELSE Nil

\* ValidateImage: TRUE when validation returns a nil error.  A decode error
\* of a heic or avif upload is passed over with the dimensions set to 0.
ValidateImage(img, category) ==
    LET i == ImageInfo(img)
        decoded == DecodeConfig(img)
        config == IF decoded = Nil THEN [width |-> 0, height |-> 0]
                                   ELSE Deref(decoded)
    IN
    /\ ~(i.size > MaxBytes)
    /\ i.format \in AllowedFormats
    /\ decoded = Nil => i.format \in {"heic", "avif"}
    /\ ~(config.width > MaxDimension \/ config.height > MaxDimension)
    /\ ~(config.width * config.height > MaxPixels)

\* ValidationResult.HasAlpha: set from image.Decode, left false when the
\* decode fails.
HasAlpha(img) == DecodeConfig(img) # Nil /\ ImageInfo(img).alpha

\* sha256.Sum256 + hex.EncodeToString
ComputeContentHash(img) == ImageInfo(img).sha

(***************************************************************************)
(* Rendition policy.                                                       *)
(***************************************************************************)
Rendition(n, w, h, skip) == [name |-> n, width |-> w, height |-> h, skipAVIF |-> skip]

GetRenditionsForCategory(category) ==
    CASE category = "profile" ->
            << Rendition("profile_48", 48, 48, TRUE),
               Rendition("profile_96", 96, 96, TRUE),
               Rendition("profile_200", 200, 200, FALSE),
               Rendition("profile_400", 400, 400, FALSE) >>
      [] category = "cover" ->
            << Rendition("cover_320", 320, 180, FALSE),
               Rendition("cover_640", 640, 360, FALSE),
               Rendition("cover_960", 960, 540, FALSE),
               Rendition("cover_1200", 1200, 675, FALSE),
               Rendition("cover_1920", 1920, 1080, FALSE) >>
      [] category = "gallery" ->
            << Rendition("gallery_thumb", 150, 150, FALSE),
               Rendition("gallery_320", 320, 0, FALSE),
               Rendition("gallery_640", 640, 0, FALSE),
               Rendition("gallery_960", 960, 0, FALSE),
               Rendition("gallery_1200", 1200, 0, FALSE),
               Rendition("gallery_1920", 1920, 0, FALSE) >>
      [] OTHER ->
            << Rendition("general_320", 320, 0, FALSE),
               Rendition("general_640", 640, 0, FALSE),
               Rendition("general_960", 960, 0, FALSE),
               Rendition("general_1200", 1200, 0, FALSE) >>

\* GetFormatsForRendition that does not look at the alpha channel.
GetFormatsIgnoringAlpha(hasAlpha, skipAVIF) ==
    IF skipAVIF THEN <<"webp", "jpg">> ELSE <<"avif", "webp", "jpg">>

GetFormatsForRendition(hasAlpha, skipAVIF) ==
    IF hasAlpha
      THEN IF skipAVIF THEN <<"webp", "png">> ELSE <<"avif", "webp", "png">>
      ELSE IF skipAVIF THEN <<"webp", "jpg">> ELSE <<"avif", "webp", "jpg">>

\* processRendition: the encoder that the switch on the format name calls.
Export(format) ==
    CASE format \in {"jpg", "jpeg"} -> "jpeg"
      [] format = "png" -> "png"
      [] format = "webp" -> "webp"
      [] format = "avif" -> "avif"

Range(s) == {s[i] : i \in DOMAIN s}

\* Attempted that skips a rendition only when the source is smaller than the
\* target height as well, whatever the target height.
AttemptedBothAxes(img, category) ==
    LET i == ImageInfo(img) IN
    {r \in Range(GetRenditionsForCategory(category)) :
        ~(r.width > i.width /\ r.height > i.height)}

\* ProcessImage: the renditions that are not skipped for a source of this size.
Attempted(img, category) ==
    LET i == ImageInfo(img) IN
    {r \in Range(GetRenditionsForCategory(category)) :
        ~(r.width > i.width /\ (r.height = 0 \/ r.height > i.height))}

\* ProcessImage: the ProcessedImage list when the renditions in `failed` fail
\* in processRendition (each is logged and left out).
ProcessImage(img, category, failed) ==
    UNION {{[name |-> r.name, format |-> f] :
              f \in Range(GetFormatsForRendition(HasAlpha(img), r.skipAVIF))} :
           r \in (Attempted(img, category) \ failed)}

(***************************************************************************)
(* Storage keys, as sequences of path segments.                            *)
(***************************************************************************)
\* uploads/tmp/{userID}/{category}/{file}
StagingKey(user, category, file) == <<"uploads", "tmp", user, category, file>>

\* fmt.Sprintf("originals/%s/%s/original", hashPrefix, hash)
OriginalKey(hash) == <<"originals", SubSeq(hash, 1, 2), hash, "original">>

\* fmt.Sprintf("derivatives/%s/%s/v%d/%s.%s", hashPrefix, hash, version, name, format)
DerivativeKey(hash, version, name, format) ==
    <<"derivatives", SubSeq(hash, 1, 2), hash, version, name, format>>

\* What the clients have uploaded to their staging prefixes before finalize.
Staged ==
    [k \in { StagingKey("u1", "profile", "f1"), StagingKey("u2", "profile", "f2"),
             StagingKey("u1", "gallery", "f3"), StagingKey("u2", "profile", "f4"),
             StagingKey("u1", "profile", "f5"), StagingKey("u2", "cover", "f6"),
             StagingKey("u1", "gallery", "f7"), StagingKey("u2", "cover", "f8") } |->
        CASE k[5] = "f1" -> "imgA"
          [] k[5] = "f2" -> "imgA"
          [] k[5] = "f3" -> "imgTiny"
          [] k[5] = "f4" -> "imgHuge"
          [] k[5] = "f5" -> "imgB"
          [] k[5] = "f6" -> "imgWide"
          [] k[5] = "f7" -> "imgHeic"
          [] k[5] = "f8" -> "imgCover"]

StagingKeys == DOMAIN Staged

\* The authenticated users.
Users == {k[3] : k \in StagingKeys}

(***************************************************************************)
(* Metadata store (imaging_repository.go).  Update errors of the database  *)
(* are not modelled: the store is available.                               *)
(***************************************************************************)
\* CreateJob: the INSERT names neither is_reprocess nor crop_data.
CreateJob(uploadKey, category, userID) ==
    Append(jobs, [upload_key |-> uploadKey, category |-> category,
                  user_id |-> userID, status |-> StatusPending, asset_id |-> Nil, attempts |-> 0,
                  last_error |-> "", is_reprocess |-> FALSE])

\* UpdateJob: SET status, asset_id, attempts, last_error WHERE id
UpdateJob(rows, id, status, assetID, attempts, lastError) ==
    [rows EXCEPT ![id] = [@ EXCEPT !.status = status, !.asset_id = assetID,
                                   !.attempts = attempts, !.last_error = lastError]]

\* GetPendingJobs: WHERE status = 'pending' ORDER BY created_at ASC.  The
\* SELECT reads id, upload_key, category, user_id, attempts, last_error.
RECURSIVE PendingFrom(_)
PendingFrom(i) ==
    IF i > Len(jobs) THEN <<>>
    ELSE (IF jobs[i].status = StatusPending
            THEN << [id |-> i, attempts |-> jobs[i].attempts,
                     lastError |-> jobs[i].last_error,
                     isReprocess |-> FALSE, src |-> "resume"] >>
            ELSE <<>>) \o PendingFrom(i + 1)

\* GetPendingJobs without the WHERE clause on the status: every row that is
\* neither ready nor failed.
GetPendingJobsUnfinished ==
    [i \in 1..Cardinality({j \in DOMAIN jobs : jobs[j].status \notin {StatusReady, StatusFailed}}) |->
       LET j == CHOOSE k \in DOMAIN jobs :
                  /\ jobs[k].status \notin {StatusReady, StatusFailed}
                  /\ Cardinality({m \in 1..k : jobs[m].status \notin {StatusReady, StatusFailed}}) = i
       IN [id |-> j, attempts |-> jobs[j].attempts, lastError |-> jobs[j].last_error,
           isReprocess |-> FALSE, src |-> "resume"]]

GetPendingJobs == PendingFrom(1)

\* GetAssetByHash: the rows WHERE content_hash = hash
AssetsByHash(hash) == {a \in assets : a.content_hash = hash}

GetAssetByHash(hash) ==
    IF AssetsByHash(hash) = {} THEN Nil ELSE Ptr(CHOOSE a \in AssetsByHash(hash) : TRUE)

\* CreateAssetOK without the UNIQUE constraint on content_hash.
CreateAssetOKNoUnique(id, hash) == \A a \in assets : a.id # id

\* CreateAsset: TRUE when the INSERT is accepted (PRIMARY KEY id, UNIQUE content_hash).
CreateAssetOK(id, hash) ==
    /\ \A a \in assets : a.id # id
    /\ \A a \in assets : a.content_hash # hash

CreateAsset(rows, id, hash, category, status, version, userID, data) ==
    rows \cup {[id |-> id, content_hash |-> hash, category |-> category,
                status |-> status, version |-> version, processed_at |-> NULL,
                created_by_user_id |-> userID,
                original_format |-> ImageInfo(data).format,
                has_alpha |-> HasAlpha(data)]}

\* UpdateAssetStatus that leaves processed_at alone unless it sets it.
UpdateAssetStatusKeepsTime(rows, id, status) ==
    {IF a.id = id
       THEN [a EXCEPT !.status = status,
                      !.processed_at = IF status \in {StatusReady, StatusFailed}
                                         THEN "now" ELSE @]
       ELSE a : a \in rows}

\* UpdateAssetStatus: SET status, error_message, processed_at WHERE id
UpdateAssetStatus(rows, id, status) ==
    {IF a.id = id
       THEN [a EXCEPT !.status = status,
                      !.processed_at = IF status \in {StatusReady, StatusFailed}
                                         THEN "now" ELSE NULL]
       ELSE a : a \in rows}

\* GetDerivatives: the rows WHERE asset_id = assetID, in no stated order.
GetDerivatives(assetID) == {d \in derivs : d.asset_id = assetID}

\* CreateDerivative for each d of ds in turn; an INSERT that violates
\* UNIQUE(asset_id, rendition_name, format) fails, is logged and skipped.
CreateDerivatives(rows, ds) ==
    rows \cup {d \in ds : \A r \in rows :
                 ~(r.asset_id = d.asset_id /\ r.rendition_name = d.rendition_name
                   /\ r.format = d.format)}

(***************************************************************************)
(* Blob store (r2_client.go).                                              *)
(***************************************************************************)
PutObject(objs, key, data) ==
    [k \in (DOMAIN objs) \cup {key} |-> IF k = key THEN data ELSE objs[k]]

DeleteObject(objs, key) == [k \in (DOMAIN objs) \ {key} |-> objs[k]]

\* The errors of MoveObject, by the prefix of their message, and the calls of
\* the S3 client that can fail in it.
ErrCopy == "failed to copy object"
ErrDelete == "failed to delete original after copy"
MoveFaults == {"none", "copy", "delete"}

\* MoveObject that deletes the source before it copies.
MoveResultDeleteFirst(objs, srcKey, dstKey, fail) ==
    IF srcKey \notin DOMAIN objs \/ fail = "delete"
      THEN [objs |-> objs, err |-> ErrDelete]
    ELSE IF fail = "copy"
      THEN [objs |-> DeleteObject(objs, srcKey), err |-> ErrCopy]
    ELSE [objs |-> PutObject(DeleteObject(objs, srcKey), dstKey, objs[srcKey]),
          err |-> ""]

\* MoveObject: CopyObject, whose error is returned before anything else is
\* done (a missing source fails the copy), then DeleteObject of the source,
\* whose error is returned with the copy in place.  The bucket after the call
\* and the error returned.
MoveResult(objs, srcKey, dstKey, fail) ==
    IF srcKey \notin DOMAIN objs \/ fail = "copy"
      THEN [objs |-> objs, err |-> ErrCopy]
    ELSE IF fail = "delete"
      THEN [objs |-> PutObject(objs, dstKey, objs[srcKey]), err |-> ErrDelete]
    ELSE [objs |-> DeleteObject(PutObject(objs, dstKey, objs[srcKey]), srcKey),
          err |-> ""]

MoveObject(objs, srcKey, dstKey) == MoveResult(objs, srcKey, dstKey, "none").objs

RECURSIVE PutAll(_, _)
PutAll(objs, keys) ==
    IF keys = {} THEN objs
    ELSE LET k == CHOOSE x \in keys : TRUE
         IN PutAll(PutObject(objs, k, "derivative"), keys \ {k})

(***************************************************************************)
(* Engine (service.go).                                                    *)
(***************************************************************************)
\* A *ProcessingJob held in memory.  src tells the two ways a job object is
\* made: by QueueProcessing/QueueReprocessing ("queue") or by the recovery
\* scan from a row ("resume").
JobRef(id, attempts, isReprocess, src) ==
    [id |-> id, attempts |-> attempts, lastError |-> "", isReprocess |-> isReprocess,
     src |-> src]


\* select { case s.jobQueue <- job: default: }
TrySend(q, job) == IF Len(q) < env.cap THEN Append(q, job) ELSE q

\* The state of an engine on empty tables, in an environment e, with its
\* recovery goroutine at r; the clients have uploaded to the staging keys they
\* will finalize.
InitIn(e, r) ==
    /\ jobs = <<>>
    /\ assets = {}
    /\ derivs = {}
    /\ objects = [k \in e.keys |-> Staged[k]]
    /\ jobQueue = <<>>
    /\ running = {}
    /\ retries = {}
    /\ resume = [pc |-> r, todo |-> <<>>]
    /\ nextId = 1
    /\ owed = {}
    /\ env = e
    /\ stopped = FALSE
    /\ panicked = {}

\* QueueProcessing: CreateJob, then the non-blocking send.
QueueProcessing(uploadKey, category, userID) ==
    /\ Len(jobs) < env.jobs
    /\ jobs' = CreateJob(uploadKey, category, userID)
    /\ jobQueue' = TrySend(jobQueue, JobRef(Len(jobs) + 1, 0, FALSE, "queue"))
    /\ UNCHANGED <<assets, derivs, objects, running, retries, resume, nextId,
                   owed, env, stopped, panicked>>

\* strings.HasPrefix(uploadKey, "uploads/tmp/" + userID + "/")
HasUserPrefix(uploadKey, userID) ==
    /\ Len(uploadKey) > 3
    /\ SubSeq(uploadKey, 1, 3) = <<"uploads", "tmp", userID>>

\* FinalizeUpload of a staged object by the authenticated user: 403 unless the
\* key is under the caller's prefix, else QueueProcessing under the category
\* of the request.
FinalizeUpload(userID, uploadKey) ==
    /\ uploadKey \in env.keys
    /\ HasUserPrefix(uploadKey, userID)
    /\ QueueProcessing(uploadKey, uploadKey[4], userID)

\* QueueReprocessing, called by ReprocessAsset for an asset that exists, by the
\* user who created it, with the canonical original key of its hash and the
\* asset's category.
QueueReprocessing(hash) ==
    /\ Len(jobs) < env.jobs
    /\ GetAssetByHash(hash) # Nil
    /\ jobs' = CreateJob(OriginalKey(hash), Deref(GetAssetByHash(hash)).category,
                         Deref(GetAssetByHash(hash)).created_by_user_id)
    /\ jobQueue' = TrySend(jobQueue, JobRef(Len(jobs) + 1, 0, TRUE, "queue"))
    /\ UNCHANGED <<assets, derivs, objects, running, retries, resume, nextId,
                   owed, env, stopped, panicked>>

\* resumePendingJobs after its settle delay: GetPendingJobs.
ResumeScan ==
    /\ resume.pc = "sleep"
    /\ resume' = IF GetPendingJobs = <<>>
                   THEN [pc |-> "done", todo |-> <<>>]
                   ELSE [pc |-> "send", todo |-> GetPendingJobs]
    /\ UNCHANGED <<store, jobQueue, running, retries, nextId, owed, env, stopped, panicked>>

\* resumePendingJobs: the blocking send of the next job of the list.
ResumeSend ==
    /\ resume.pc = "send"
    /\ Len(jobQueue) < env.cap
    /\ jobQueue' = Append(jobQueue, Head(resume.todo))
    /\ resume' = IF Len(resume.todo) = 1
                   THEN [pc |-> "done", todo |-> <<>>]
                   ELSE [pc |-> "send", todo |-> Tail(resume.todo)]
    /\ owed' = owed \ {Head(resume.todo).id}
    /\ UNCHANGED <<store, running, retries, nextId, env, stopped, panicked>>

\* worker: a free worker receives the next job from the channel and enters
\* processJob, whose first call is UpdateJob(downloading, nil, attempts, "").
Dequeue ==
    /\ Cardinality(running) < NumWorkers
    /\ jobQueue # <<>>
    /\ LET job == Head(jobQueue) IN
         /\ running' = running \cup
               {[job |-> job, pc |-> "fetch", data |-> NULL, hash |-> <<>>,
                 assetID |-> 0, version |-> 0, existing |-> FALSE,
                 waiting |-> 0, inflight |-> 0]}
         /\ jobs' = UpdateJob(jobs, job.id, StatusDownloading, Nil, job.attempts, "")
    /\ jobQueue' = Tail(jobQueue)
    /\ UNCHANGED <<assets, derivs, objects, retries, resume, nextId, owed, env, stopped, panicked>>

\* The errors processJob returns, by the prefix of their message.
ErrDownload == "failed to download original"
ErrValidation == "validation failed"
ErrCreateAsset == "failed to create asset record"
ErrProcessing == "processing failed"
ErrUpload == "upload failed"

\* handleJobFailure that gives up at the first error.
HandleJobFailureNoRetry(p, err) ==
    /\ jobs' = UpdateJob(jobs, p.job.id, StatusFailed, Nil, p.job.attempts + 1, err)
    /\ retries' = retries
    /\ running' = running \ {p}

\* handleJobFailure, run by the worker when processJob returned the error err:
\* job.Attempts++ and job.LastError = err.Error() on the job object, then the
\* UpdateJob and, below three attempts, the retry goroutine holding the object.
HandleJobFailure(p, err) ==
    LET attempts == p.job.attempts + 1 IN
    /\ jobs' = IF attempts < MaxAttempts
                 THEN UpdateJob(jobs, p.job.id, StatusPending, Nil, attempts, err)
                 ELSE UpdateJob(jobs, p.job.id, StatusFailed, Nil, attempts, err)
    /\ retries' = IF attempts < MaxAttempts
                    THEN retries \cup {[p.job EXCEPT !.attempts = attempts,
                                                     !.lastError = err]}
                    ELSE retries
    /\ running' = running \ {p}

\* The worker p goes on to the next step of processJob.
Goto(p, q) ==
    /\ running' = (running \ {p}) \cup {q}
    /\ UNCHANGED retries

\* One injected failure is used up.
Fault ==
    /\ env.faults > 0
    /\ env' = [env EXCEPT !.faults = @ - 1]
    /\ UNCHANGED <<stopped, panicked>>

\* QueueErr without the return on the error of CreateJob.
QueueErrSends(uploadKey, category, userID) ==
    /\ Fault
    /\ jobQueue' = TrySend(jobQueue, JobRef(Len(jobs) + 1, 0, FALSE, "queue"))
    /\ UNCHANGED <<store, running, retries, resume, nextId, owed>>

\* QueueProcessing or QueueReprocessing when CreateJob returns an error: the
\* method returns uuid.Nil and the error before the send.
QueueErr(uploadKey, category, userID) ==
    /\ Fault
    /\ UNCHANGED <<store, jobQueue, running, retries, resume, nextId, owed>>

\* processJob steps 1-3: GetObject of the upload key and ValidateImage (either
\* error returns from processJob), then GetAssetByHash and the dedup cases.
Fetch(p) ==
    /\ p.pc = "fetch"
    /\ LET row == jobs[p.job.id] IN
       IF row.upload_key \notin DOMAIN objects
         THEN HandleJobFailure(p, ErrDownload) /\ UNCHANGED <<objects, nextId>>
       ELSE IF ~ValidateImage(objects[row.upload_key], row.category)
         THEN HandleJobFailure(p, ErrValidation) /\ UNCHANGED <<objects, nextId>>
       ELSE
         LET data == objects[row.upload_key]
             hash == ComputeContentHash(data)
             existingAsset == GetAssetByHash(hash)
             q == [p EXCEPT !.pc = "asset", !.data = data, !.hash = hash]
         IN IF existingAsset # Nil /\ ~p.job.isReprocess
                  /\ Deref(existingAsset).status = StatusReady
              THEN /\ jobs' = UpdateJob(jobs, p.job.id, StatusReady,
                                        Ptr(Deref(existingAsset).id),
                                        p.job.attempts, "")
                   /\ objects' = DeleteObject(objects, row.upload_key)
                   /\ running' = running \ {p}
                   /\ UNCHANGED <<retries, nextId>>
            ELSE IF existingAsset # Nil
              THEN /\ Goto(p, [q EXCEPT !.assetID = Deref(existingAsset).id,
                                        !.version = Deref(existingAsset).version + 1,
                                        !.existing = TRUE])
                   /\ UNCHANGED <<jobs, objects, nextId>>
              ELSE /\ Goto(p, [q EXCEPT !.assetID = nextId, !.version = 1,
                                        !.existing = FALSE])
                   /\ nextId' = nextId + 1
                   /\ UNCHANGED <<jobs, objects>>
    /\ UNCHANGED <<assets, derivs, jobQueue, resume, owed, env, stopped, panicked>>

\* processJob step 1 when the blob store fails the GET of an existing object.
FetchFault(p) ==
    /\ p.pc = "fetch"
    /\ jobs[p.job.id].upload_key \in DOMAIN objects
    /\ Fault
    /\ HandleJobFailure(p, ErrDownload)
    /\ UNCHANGED <<assets, derivs, objects, jobQueue, resume, nextId, owed>>

\* processJob step 4: UpdateAssetStatus(processing) of the reused asset or
\* CreateAsset of the new one, then the UpdateJob that links the job.
AssetStep(p) ==
    /\ p.pc = "asset"
    /\ IF p.existing \/ CreateAssetOK(p.assetID, p.hash)
         THEN /\ assets' = IF p.existing
                  THEN UpdateAssetStatus(assets, p.assetID, StatusProcessing)
                  ELSE CreateAsset(assets, p.assetID, p.hash, jobs[p.job.id].category,
                                   StatusProcessing, p.version,
                                   jobs[p.job.id].user_id, p.data)
              /\ jobs' = UpdateJob(jobs, p.job.id, StatusProcessing, Ptr(p.assetID),
                                   p.job.attempts, "")
              /\ Goto(p, [p EXCEPT !.pc = "transform"])
         ELSE /\ HandleJobFailure(p, ErrCreateAsset)
              /\ UNCHANGED assets
    /\ UNCHANGED <<derivs, objects, jobQueue, resume, nextId, owed, env, stopped, panicked>>

\* The storage keys of a worker's outputs: asset.Version is the version the
\* dedup step computed.
OutKeys(p, outs) == {DerivativeKey(p.hash, p.version, o.name, o.format) : o \in outs}

\* The Derivative records of a worker's uploads.
DerivativeRows(p, outs) ==
    {[asset_id |-> p.assetID, rendition_name |-> o.name, format |-> o.format,
      storage_key |-> DerivativeKey(p.hash, p.version, o.name, o.format)] : o \in outs}

\* processJob steps 5-7 when the renditions in `failed` fail in
\* processRendition: ProcessImage returns the others with a nil error,
\* UpdateAssetStatus(uploading), every PutObject succeeds, then CreateDerivative
\* per upload.
TransformWith(p, failed) ==
    LET outs == ProcessImage(p.data, jobs[p.job.id].category, failed) IN
    /\ p.pc = "transform"
    /\ assets' = UpdateAssetStatus(assets, p.assetID, StatusUploading)
    /\ objects' = PutAll(objects, OutKeys(p, outs))
    /\ derivs' = CreateDerivatives(derivs, DerivativeRows(p, outs))
    /\ Goto(p, [p EXCEPT !.pc = "finish"])
    /\ UNCHANGED <<jobs, jobQueue, resume, nextId, owed>>

\* Every attempted rendition succeeds.
Transform(p) == TransformWith(p, {}) /\ UNCHANGED env /\ UNCHANGED <<stopped, panicked>>

\* Some attempted renditions fail.
TransformPartial(p) ==
    /\ p.pc = "transform"
    /\ Fault
    /\ \E failed \in SUBSET Attempted(p.data, jobs[p.job.id].category) :
         failed # {} /\ TransformWith(p, failed)

\* processJob step 5 when ProcessImage returns an error (the source does not
\* load): UpdateAssetStatus(failed) and the error is returned.
TransformFault(p) ==
    /\ p.pc = "transform"
    /\ Fault
    /\ assets' = UpdateAssetStatus(assets, p.assetID, StatusFailed)
    /\ HandleJobFailure(p, ErrProcessing)
    /\ UNCHANGED <<derivs, objects, jobQueue, resume, nextId, owed>>

\* processJob step 6 with the CreateDerivative loop ahead of g.Wait: the rows
\* of all outputs are inserted although a PutObject failed.
UploadFaultInsertsRows(p) ==
    LET outs == ProcessImage(p.data, jobs[p.job.id].category, {}) IN
    /\ p.pc = "transform"
    /\ Fault
    /\ \E done \in SUBSET outs :
         /\ done # outs
         /\ objects' = PutAll(objects, OutKeys(p, done))
    /\ assets' = UpdateAssetStatus(assets, p.assetID, StatusFailed)
    /\ HandleJobFailure(p, ErrUpload)
    /\ derivs' = CreateDerivatives(derivs, DerivativeRows(p, outs))
    /\ UNCHANGED <<jobQueue, resume, nextId, owed>>

\* processJob step 6 when a PutObject fails: the uploads in `done` completed,
\* g.Wait returns the error, UpdateAssetStatus(failed); no row is inserted.
UploadFault(p) ==
    LET outs == ProcessImage(p.data, jobs[p.job.id].category, {}) IN
    /\ p.pc = "transform"
    /\ Fault
    /\ \E done \in SUBSET outs :
         /\ done # outs
         /\ objects' = PutAll(objects, OutKeys(p, done))
    /\ assets' = UpdateAssetStatus(assets, p.assetID, StatusFailed)
    /\ HandleJobFailure(p, ErrUpload)
    /\ UNCHANGED <<derivs, jobQueue, resume, nextId, owed>>

\* CreateDerivative errors that make processJob return them.
RowFaultFails(p) ==
    /\ p.pc = "transform"
    /\ Fault
    /\ assets' = UpdateAssetStatus(assets, p.assetID, StatusFailed)
    /\ objects' = PutAll(objects, OutKeys(p, ProcessImage(p.data, jobs[p.job.id].category, {})))
    /\ HandleJobFailure(p, ErrUpload)
    /\ UNCHANGED <<derivs, jobQueue, resume, nextId, owed>>

\* processJob steps 5-6 when CreateDerivative fails for the rows in `lost`:
\* each error is logged and the loop continues.
RowFault(p) ==
    LET outs == ProcessImage(p.data, jobs[p.job.id].category, {}) IN
    /\ p.pc = "transform"
    /\ Fault
    /\ assets' = UpdateAssetStatus(assets, p.assetID, StatusUploading)
    /\ objects' = PutAll(objects, OutKeys(p, outs))
    /\ \E lost \in SUBSET DerivativeRows(p, outs) :
         /\ lost # {}
         /\ derivs' = CreateDerivatives(derivs, DerivativeRows(p, outs) \ lost)
    /\ Goto(p, [p EXCEPT !.pc = "finish"])
    /\ UNCHANGED <<jobs, jobQueue, resume, nextId, owed>>

\* processJob step 7 when MoveObject fails: the error is logged, then
\* UpdateAssetStatus(ready) and UpdateJob(ready).
MoveFault(p) ==
    /\ p.pc = "finish"
    /\ jobs[p.job.id].upload_key # OriginalKey(p.hash)
    /\ Fault
    /\ \E fail \in MoveFaults \ {"none"} :
         objects' = MoveResult(objects, jobs[p.job.id].upload_key,
                               OriginalKey(p.hash), fail).objs
    /\ assets' = UpdateAssetStatus(assets, p.assetID, StatusReady)
    /\ jobs' = UpdateJob(jobs, p.job.id, StatusReady, Ptr(p.assetID), p.job.attempts,
                         "")
    /\ running' = running \ {p}
    /\ UNCHANGED <<derivs, jobQueue, retries, resume, nextId, owed>>

\* The dedup short-circuit of step 3 when DeleteObject of the upload fails:
\* its error is dropped.
DeleteFault(p) ==
    /\ p.pc = "fetch"
    /\ jobs[p.job.id].upload_key \in DOMAIN objects
    /\ ValidateImage(objects[jobs[p.job.id].upload_key], jobs[p.job.id].category)
    /\ LET existingAsset ==
             GetAssetByHash(ComputeContentHash(objects[jobs[p.job.id].upload_key]))
       IN /\ existingAsset # Nil
          /\ ~p.job.isReprocess
          /\ Deref(existingAsset).status = StatusReady
          /\ jobs' = UpdateJob(jobs, p.job.id, StatusReady,
                               Ptr(Deref(existingAsset).id), p.job.attempts, "")
    /\ Fault
    /\ running' = running \ {p}
    /\ UNCHANGED <<assets, derivs, objects, jobQueue, retries, resume, nextId, owed>>

BestEffortFault(p) ==
    \/ RowFault(p)
    \/ MoveFault(p)
    \/ DeleteFault(p)

\* processJob step 6, goroutine by goroutine.  The upload goroutines of one
\* job differ only in the output they carry; the worker counts those that
\* have not passed the semaphore (waiting) and those that hold a slot and are
\* inside PutObject (inflight).  The objects are shown in the store when
\* g.Wait returns.
UploadStart(p) ==
    LET outs == ProcessImage(p.data, jobs[p.job.id].category, {}) IN
    /\ p.pc = "transform"
    /\ assets' = UpdateAssetStatus(assets, p.assetID, StatusUploading)
    /\ Goto(p, [p EXCEPT !.pc = "upload", !.waiting = Cardinality(outs),
                          !.inflight = 0])
    /\ UNCHANGED <<jobs, derivs, objects, jobQueue, resume, nextId, owed, env, stopped, panicked>>

\* The semaphore send that always goes through.
SemAlwaysFree(p) == TRUE

\* case sem <- struct{}{}: the buffered channel of SemCap slots takes the send.
SemFree(p) == p.inflight < SemCap

\* An upload goroutine acquires the semaphore and calls PutObject.
Acquire(p) ==
    /\ p.pc = "upload"
    /\ p.waiting > 0
    /\ SemFree(p)
    /\ Goto(p, [p EXCEPT !.waiting = @ - 1, !.inflight = @ + 1])
    /\ UNCHANGED <<store, jobQueue, resume, nextId, owed, env, stopped, panicked>>

\* PutObject returns nil; the deferred <-sem frees the slot.
PutReturns(p) ==
    /\ p.pc = "upload"
    /\ p.inflight > 0
    /\ Goto(p, [p EXCEPT !.inflight = @ - 1])
    /\ UNCHANGED <<store, jobQueue, resume, nextId, owed, env, stopped, panicked>>

\* g.Wait returns nil: CreateDerivative per upload.
UploadEnd(p) ==
    LET outs == ProcessImage(p.data, jobs[p.job.id].category, {}) IN
    /\ p.pc = "upload"
    /\ p.waiting = 0
    /\ p.inflight = 0
    /\ objects' = PutAll(objects, OutKeys(p, outs))
    /\ derivs' = CreateDerivatives(derivs, DerivativeRows(p, outs))
    /\ Goto(p, [p EXCEPT !.pc = "finish"])
    /\ UNCHANGED <<jobs, assets, jobQueue, resume, nextId, owed, env, stopped, panicked>>

\* processJob steps 7-8 of the code's comments: MoveObject of the original
\* unless it is already canonical, UpdateAssetStatus(ready), UpdateJob(ready).
Finish(p) ==
    /\ p.pc = "finish"
    /\ objects' = IF jobs[p.job.id].upload_key # OriginalKey(p.hash)
                    THEN MoveObject(objects, jobs[p.job.id].upload_key,
                                    OriginalKey(p.hash))
                    ELSE objects
    /\ assets' = UpdateAssetStatus(assets, p.assetID, StatusReady)
    /\ jobs' = UpdateJob(jobs, p.job.id, StatusReady, Ptr(p.assetID), p.job.attempts,
                         "")
    /\ running' = running \ {p}
    /\ UNCHANGED <<derivs, jobQueue, retries, resume, nextId, owed, env, stopped, panicked>>

\* The retry goroutine of handleJobFailure after its sleep: non-blocking send.
RetryFire(job) ==
    /\ job \in retries
    /\ retries' = retries \ {job}
    /\ jobQueue' = TrySend(jobQueue, job)
    /\ UNCHANGED <<store, running, resume, nextId, owed, env, stopped, panicked>>

\* The process dies and is started again (NewService): the channel, the
\* workers and the goroutines are gone, the stores stay.
Restart ==
    /\ env.restarts > 0
    /\ env' = [env EXCEPT !.restarts = @ - 1]
    /\ stopped' = FALSE
    /\ panicked' = {}
    /\ jobQueue' = <<>>
    /\ running' = {}
    /\ retries' = {}
    /\ resume' = [pc |-> "sleep", todo |-> <<>>]
    /\ owed' = {j \in DOMAIN jobs : jobs[j].status \notin {StatusReady, StatusFailed}}
    /\ UNCHANGED <<store, nextId>>

\* The Go runtime ends the process when a goroutine panics and no deferred
\* function on its stack recovers: the channel, the workers and the goroutines
\* are gone, the stores stay as they were.
Crash(who, id) ==
    /\ panicked' = panicked \cup {[who |-> who, job |-> id]}
    /\ jobQueue' = <<>>
    /\ running' = {}
    /\ retries' = {}
    /\ resume' = [pc |-> "done", todo |-> <<>>]
    /\ UNCHANGED <<store, nextId, owed, stopped>>

\* worker: processJob panics for the job of p.  worker defers only
\* s.wg.Done(), and neither processJob nor its callees recover.
WorkerPanic(p) ==
    /\ p \in running
    /\ env.faults > 0
    /\ env' = [env EXCEPT !.faults = @ - 1]
    /\ Crash("worker", p.job.id)

WorkerStep(p) ==
    \/ Fetch(p)
    \/ AssetStep(p)
    \/ Transform(p)
    \/ Finish(p)

WorkerFault(p) ==
    \/ FetchFault(p)
    \/ TransformPartial(p)
    \/ TransformFault(p)
    \/ UploadFault(p)

\* Stop: s.cancel() cancels the root context, close(s.jobQueue); the workers
\* inside processJob go on with a cancelled context.
Stop ==
    /\ ~stopped
    /\ stopped' = TRUE
    /\ UNCHANGED panicked
    /\ UNCHANGED <<store, jobQueue, running, retries, resume, nextId, owed, env>>

\* A worker inside processJob after Stop.  Every call that takes the job's
\* context (derived from s.ctx) fails: the repository calls whose error is
\* ignored or only logged change nothing, GetObject, CreateAsset and PutObject
\* make processJob return their error.  handleJobFailure then runs with
\* context.Background(), so its UpdateJob is applied.
Interrupted(p) ==
    /\ stopped
    /\ p \in running
    /\ CASE p.pc = "fetch" ->
               HandleJobFailure(p, ErrDownload)
          [] p.pc = "asset" ->
               IF p.existing
                 THEN Goto(p, [p EXCEPT !.pc = "transform"]) /\ UNCHANGED jobs
                 ELSE HandleJobFailure(p, ErrCreateAsset)
          [] p.pc = "transform" ->
               \* processRendition returns ctx.Err(), which ProcessImage logs and
               \* drops: no output, nothing to upload; or the renditions were
               \* done before the cancel and the first upload returns gCtx.Err().
               \/ Goto(p, [p EXCEPT !.pc = "finish"]) /\ UNCHANGED jobs
               \/ /\ ProcessImage(p.data, jobs[p.job.id].category, {}) # {}
                  /\ HandleJobFailure(p, ErrUpload)
          [] p.pc = "finish" ->
               /\ running' = running \ {p}
               /\ UNCHANGED <<jobs, retries>>
    /\ UNCHANGED <<assets, derivs, objects, jobQueue, resume, nextId, owed, env,
                   stopped, panicked>>

\* The retry goroutine of handleJobFailure whose sleep ends after Stop: the
\* send case of its select is on a closed channel, which panics whether or
\* not the select has a default.
RetryAfterStop(job) ==
    /\ stopped
    /\ job \in retries
    /\ Crash("retry", job.id)
    /\ UNCHANGED env

\* resumePendingJobs reaching its select after Stop: the send on the closed
\* channel and the receive from s.ctx.Done() can both proceed, and select
\* takes one of them at random: the goroutine returns or panics.
ResumeAfterStop ==
    /\ stopped
    /\ resume.pc = "send"
    /\ \/ /\ resume' = [pc |-> "done", todo |-> <<>>]
          /\ UNCHANGED <<store, jobQueue, running, retries, nextId, owed, stopped,
                         panicked>>
       \/ Crash("resume", Head(resume.todo).id)
    /\ UNCHANGED env

(***************************************************************************)
(* Serving (service.go, GetDerivativeKey).                                 *)
(***************************************************************************)
\* The characters of a rendition name.
Chars(name) ==
    CASE name = "profile_48" -> <<"p", "r", "o", "f", "i", "l", "e", "_", "4", "8">>
      [] name = "profile_96" -> <<"p", "r", "o", "f", "i", "l", "e", "_", "9", "6">>
      [] name = "profile_200" -> <<"p", "r", "o", "f", "i", "l", "e", "_", "2", "0", "0">>
      [] name = "profile_400" -> <<"p", "r", "o", "f", "i", "l", "e", "_", "4", "0", "0">>
      [] name = "cover_320" -> <<"c", "o", "v", "e", "r", "_", "3", "2", "0">>
      [] name = "cover_640" -> <<"c", "o", "v", "e", "r", "_", "6", "4", "0">>
      [] name = "cover_960" -> <<"c", "o", "v", "e", "r", "_", "9", "6", "0">>
      [] name = "cover_1200" -> <<"c", "o", "v", "e", "r", "_", "1", "2", "0", "0">>
      [] name = "cover_1920" -> <<"c", "o", "v", "e", "r", "_", "1", "9", "2", "0">>
      [] name = "gallery_thumb" -> <<"g", "a", "l", "l", "e", "r", "y", "_", "t", "h", "u", "m", "b">>
      [] name = "gallery_320" -> <<"g", "a", "l", "l", "e", "r", "y", "_", "3", "2", "0">>
      [] name = "gallery_640" -> <<"g", "a", "l", "l", "e", "r", "y", "_", "6", "4", "0">>
      [] name = "gallery_960" -> <<"g", "a", "l", "l", "e", "r", "y", "_", "9", "6", "0">>
      [] name = "gallery_1200" -> <<"g", "a", "l", "l", "e", "r", "y", "_", "1", "2", "0", "0">>
      [] name = "gallery_1920" -> <<"g", "a", "l", "l", "e", "r", "y", "_", "1", "9", "2", "0">>
      [] name = "general_320" -> <<"g", "e", "n", "e", "r", "a", "l", "_", "3", "2", "0">>
      [] name = "general_640" -> <<"g", "e", "n", "e", "r", "a", "l", "_", "6", "4", "0">>
      [] name = "general_960" -> <<"g", "e", "n", "e", "r", "a", "l", "_", "9", "6", "0">>
      [] name = "general_1200" -> <<"g", "e", "n", "e", "r", "a", "l", "_", "1", "2", "0", "0">>
      [] name = "original" -> <<"o", "r", "i", "g", "i", "n", "a", "l">>
      [] name = "thumb" -> <<"t", "h", "u", "m", "b">>

\* strings.Index(s, c): the first position of c in s, 0-based, or -1.
StringsIndex(s, c) ==
    IF \E i \in DOMAIN s : s[i] = c
      THEN (CHOOSE i \in DOMAIN s : s[i] = c /\ \A k \in 1..(i - 1) : s[k] # c) - 1
      ELSE -1

\* strings.HasPrefix(s, prefix)
HasPrefix(s, prefix) ==
    Len(prefix) <= Len(s) /\ SubSeq(s, 1, Len(prefix)) = prefix

\* The results of GetDerivativeKey: (key, format, nil) or ("", "", error).
KeyResult(key, format) == [key |-> key, format |-> format, err |-> ""]
KeyError(err) == [key |-> <<>>, format |-> "", err |-> err]

\* Priorities with webp tried before avif.
PrioritiesWebpFirst == <<"webp", "avif", "jpeg", "jpg", "png">>

Priorities == <<"avif", "webp", "jpeg", "jpg", "png">>

\* The first d of the list in a set of candidates that satisfies a test is,
\* the list having no stated order, any d of the set that satisfies it.
\* The formats of Priorities are tried in turn from position i.
RECURSIVE ByPriority(_, _)
ByPriority(candidates, i) ==
    IF i > Len(Priorities) THEN {KeyResult(d.storage_key, d.format) : d \in candidates}
    ELSE IF \E d \in candidates : d.format = Priorities[i]
      THEN {KeyResult(d.storage_key, d.format) :
              d \in {c \in candidates : c.format = Priorities[i]}}
      ELSE ByPriority(candidates, i + 1)

\* GetDerivativeKey from the candidate search on: the derivative of the asset
\* row a for a rendition name other than "original".
ResolveDerivative(a, renditionName, preferredFormat) ==
      LET all == GetDerivatives(a.id)
          exact == {d \in all : d.rendition_name = renditionName}
          idx == StringsIndex(Chars(renditionName), "_")
          category == IF idx # -1 THEN SubSeq(Chars(renditionName), 1, idx) ELSE <<>>
          sameCategory == IF category # <<>>
                            THEN {d \in all : HasPrefix(Chars(d.rendition_name), category)}
                            ELSE {}
          candidates == IF exact # {} THEN exact
                        ELSE IF sameCategory # {} THEN sameCategory
                        ELSE all
      IN IF candidates = {} THEN {KeyError("no derivatives found")}
         ELSE IF preferredFormat # "" /\ \E d \in candidates : d.format = preferredFormat
           THEN {KeyResult(d.storage_key, d.format) :
                   d \in {c \in candidates : c.format = preferredFormat}}
         ELSE ByPriority(candidates, 1)

\* GetDerivativeKey that answers for "original" before it looks at the status.
GetDerivativeKeyOriginalFirst(contentHash, renditionName, preferredFormat) ==
    LET asset == GetAssetByHash(contentHash) IN
    IF asset = Nil THEN {KeyError("asset not found")}
    ELSE IF renditionName = "original"
      THEN {KeyResult(OriginalKey(contentHash), Deref(asset).original_format)}
    ELSE IF Deref(asset).status # StatusReady THEN {KeyError("asset not ready")}
    ELSE ResolveDerivative(Deref(asset), renditionName, preferredFormat)

\* GetDerivativeKey against the current tables: the set of results it can
\* return.
GetDerivativeKey(contentHash, renditionName, preferredFormat) ==
    LET asset == GetAssetByHash(contentHash) IN
    IF asset = Nil THEN {KeyError("asset not found")}
    ELSE IF Deref(asset).status # StatusReady THEN {KeyError("asset not ready")}
    ELSE IF renditionName = "original"
      THEN {KeyResult(OriginalKey(contentHash), Deref(asset).original_format)}
    ELSE ResolveDerivative(Deref(asset), renditionName, preferredFormat)

AllKeys == DOMAIN Staged

\* The staging keys that hold the bytes of imgA.
SameBytesKeys == {k \in AllKeys : Staged[k] = "imgA"}

Engine ==
    \/ \E u \in Users, k \in StagingKeys : FinalizeUpload(u, k)
    \/ \E h \in {a.content_hash : a \in assets} : QueueReprocessing(h)
    \/ Dequeue
    \/ \E p \in running : WorkerStep(p)
    \/ \E job \in retries : RetryFire(job)

(***************************************************************************)
(* Spec: the engine from NewService on, with process restarts, a small     *)
(* channel and uploads that are processed, that yield no rendition and     *)
(* that fail validation; the stores do not fail.                           *)
(***************************************************************************)
RestartKeys == {k \in AllKeys : Staged[k] \in {"imgA", "imgTiny", "imgHuge"}}

Init == InitIn([cap |-> QueueCap, jobs |-> MaxJobs, keys |-> RestartKeys, faults |-> 0,
                restarts |-> MaxRestarts], "sleep")

Next ==
    \/ Engine
    \/ ResumeScan
    \/ ResumeSend
    \/ Restart

Spec == Init /\ [][Next]_vars

(***************************************************************************)
(* SpecSteady: an engine whose recovery scan has finished on empty tables, *)
(* with the channel capacity of the code, no restart and no failure of the *)
(* stores; the clients upload identical bytes.                             *)
(***************************************************************************)
InitSteady == InitIn([cap |-> ChannelCap, jobs |-> MaxJobs, keys |-> SameBytesKeys, faults |-> 0,
                      restarts |-> 0], "done")

SpecSteady == InitSteady /\ [][Engine]_vars

(***************************************************************************)
(* SpecFaults: as SpecSteady, with failures of the blob store and of the   *)
(* transformer.                                                            *)
(***************************************************************************)
InitFaults == InitIn([cap |-> ChannelCap, jobs |-> MaxJobs, keys |-> SameBytesKeys,
                      faults |-> MaxFaults, restarts |-> 0], "done")

NextFaults ==
    \/ Engine
    \/ \E k \in env.keys : QueueErr(k, k[4], k[3])
    \/ \E p \in running : WorkerFault(p)

SpecFaults == InitFaults /\ [][NextFaults]_vars

(***************************************************************************)
(* SpecQueue: as SpecSteady, with a metadata store that can fail CreateJob. *)
(***************************************************************************)
NextQueue ==
    \/ Engine
    \/ \E k \in env.keys : QueueErr(k, k[4], k[3])

SpecQueue == InitFaults /\ [][NextQueue]_vars

(***************************************************************************)
(* SpecApi: as SpecSteady, with QueueProcessing also called directly, for  *)
(* any staged key on behalf of any user.                                   *)
(***************************************************************************)
NextApi ==
    \/ Engine
    \/ \E u \in Users, k \in env.keys : QueueProcessing(k, k[4], u)

SpecApi == InitSteady /\ [][NextApi]_vars

(***************************************************************************)
(* SpecUploads: as SpecSteady, with every kind of upload.                  *)
(***************************************************************************)
InitUploads == InitIn([cap |-> ChannelCap, jobs |-> MaxJobs, keys |-> AllKeys, faults |-> 0,
                       restarts |-> 0], "done")

SpecUploads == InitUploads /\ [][Engine]_vars

(***************************************************************************)
(* SpecServe: as SpecSteady, for the uploads whose derivative sets differ  *)
(* most: the 256x256 image (three renditions) and the 32x32 image (none).  *)
(***************************************************************************)
ServeKeys == {k \in AllKeys : Staged[k] \in {"imgB", "imgTiny"}}

InitServe == InitIn([cap |-> ChannelCap, jobs |-> MaxJobs, keys |-> ServeKeys, faults |-> 0,
                     restarts |-> 0], "done")

SpecServe == InitServe /\ [][Engine]_vars

(***************************************************************************)
(* SpecStop: as SpecSteady, with a shutdown of the engine at any moment.   *)
(***************************************************************************)
NextStop ==
    \/ ~stopped /\ Engine
    \/ Stop
    \/ \E p \in running : Interrupted(p)

SpecStop == InitSteady /\ [][NextStop]_vars

(***************************************************************************)
(* SpecLadder: as SpecSteady, for sources of four sizes: 32x32 in gallery,  *)
(* 256x256 in profile, 320x180 in cover and 6500x4000 in gallery.          *)
(***************************************************************************)
LadderKeys == {k \in AllKeys : Staged[k] \in {"imgTiny", "imgB", "imgCover", "imgHeic"}}

InitLadder == InitIn([cap |-> ChannelCap, jobs |-> MaxJobs, keys |-> LadderKeys, faults |-> 0,
                      restarts |-> 0], "done")

SpecLadder == InitLadder /\ [][Engine]_vars

(***************************************************************************)
(* SpecSem: one job, of the upload with the most outputs (the six gallery  *)
(* renditions in three formats), on an engine as in SpecSteady, with the   *)
(* upload step taken goroutine by goroutine.                               *)
(***************************************************************************)
SemKeys == {k \in AllKeys : Staged[k] = "imgHeic"}

InitSem == InitIn([cap |-> ChannelCap, jobs |-> MaxJobs, keys |-> SemKeys, faults |-> 0,
                   restarts |-> 0], "done")

NextSem ==
    \/ \E u \in Users, k \in StagingKeys : jobs = <<>> /\ FinalizeUpload(u, k)
    \/ Dequeue
    \/ \E p \in running : Fetch(p)
    \/ \E p \in running : AssetStep(p)
    \/ \E p \in running : UploadStart(p)
    \/ \E p \in running : Acquire(p)
    \/ \E p \in running : PutReturns(p)
    \/ \E p \in running : UploadEnd(p)
    \/ \E p \in running : Finish(p)

SpecSem == InitSem /\ [][NextSem]_vars

(***************************************************************************)
(* SpecBestEffort: as SpecSteady, with failures of MoveObject, of the      *)
(* DeleteObject of the staging upload and of CreateDerivative.             *)
(***************************************************************************)
NextBestEffort ==
    \/ Engine
    \/ \E p \in running : BestEffortFault(p)

SpecBestEffort == InitFaults /\ [][NextBestEffort]_vars

(***************************************************************************)
(* SpecAssetStatus: one upload, finalized and reprocessed on an engine as  *)
(* in SpecSteady, with failures of the transformer and of the derivative   *)
(* uploads, which mark the asset failed.                                   *)
(***************************************************************************)
OneKey == {k \in AllKeys : k[5] = "f1"}

InitAssetStatus == InitIn([cap |-> ChannelCap, jobs |-> MaxJobs, keys |-> OneKey,
                           faults |-> MaxFaults, restarts |-> 0], "done")

NextAssetStatus ==
    \/ Engine
    \/ \E p \in running : TransformFault(p)
    \/ \E p \in running : UploadFault(p)

SpecAssetStatus == InitAssetStatus /\ [][NextAssetStatus]_vars

(***************************************************************************)
(* SpecReprocess: one upload, finalized and reprocessed on an engine as in *)
(* SpecSteady, with room for one job more.                                 *)
(***************************************************************************)
InitReprocess == InitIn([cap |-> ChannelCap, jobs |-> MaxJobs + 1, keys |-> OneKey,
                         faults |-> 0, restarts |-> 0], "done")

SpecReprocess == InitReprocess /\ [][Engine]_vars

(***************************************************************************)
(* SpecPanic: as SpecSteady, where processJob may panic.                   *)
(***************************************************************************)
NextPanic ==
    \/ panicked = {} /\ Engine
    \/ \E p \in running : WorkerPanic(p)

SpecPanic == InitFaults /\ [][NextPanic]_vars

(***************************************************************************)
(* SpecShutdown: the engine from NewService on, stopped at any moment,     *)
(* with the goroutines that outlive Stop.                                  *)
(***************************************************************************)
InitShutdown == InitIn([cap |-> ChannelCap, jobs |-> MaxJobs, keys |-> SameBytesKeys,
                        faults |-> 0, restarts |-> 0], "sleep")

NextShutdown ==
    \/ ~stopped /\ Engine
    \/ ~stopped /\ ResumeSend
    \/ ResumeScan
    \/ Stop
    \/ \E p \in running : Interrupted(p)
    \/ \E job \in retries : RetryAfterStop(job)
    \/ ResumeAfterStop

SpecShutdown == InitShutdown /\ [][NextShutdown]_vars

\* Every goroutine that can take a step takes one in the end: the scheduler
\* runs the workers, and the sleeps of the other goroutines end.
SpecShutdownFair == SpecShutdown /\ WF_vars(NextShutdown)

(***************************************************************************)
(* SpecMove: one upload, finalized and reprocessed, with a blob store that *)
(* can fail either call of MoveObject.                                     *)
(***************************************************************************)
NextMove ==
    \/ Engine
    \/ \E p \in running : MoveFault(p)

SpecMove == InitAssetStatus /\ [][NextMove]_vars

(***************************************************************************)
(* SpecRecovery: as Spec, with the channel capacity of the code, the        *)
(* clients uploading identical bytes and no reprocessing.                  *)
(***************************************************************************)
InitRecovery == InitIn([cap |-> ChannelCap, jobs |-> MaxJobs, keys |-> SameBytesKeys, faults |-> 0,
                        restarts |-> MaxRestarts], "sleep")

NextRecovery ==
    \/ \E u \in Users, k \in StagingKeys : FinalizeUpload(u, k)
    \/ Dequeue
    \/ \E p \in running : WorkerStep(p)
    \/ \E job \in retries : RetryFire(job)
    \/ ResumeScan
    \/ ResumeSend
    \/ Restart

SpecRecovery == InitRecovery /\ [][NextRecovery]_vars

(***************************************************************************)
(* Properties.                                                             *)
(***************************************************************************)
Terminal(j) == jobs[j].status \in {StatusReady, StatusFailed}

\* The job objects of job j that the process holds.
InChannel(j) == \E i \in DOMAIN jobQueue : jobQueue[i].id = j
InWorker(j) == \E p \in running : p.job.id = j
InRetry(j) == \E job \in retries : job.id = j
Held(j) == InChannel(j) \/ InWorker(j) \/ InRetry(j)

\* Nothing is in flight: the channel is empty, the workers are idle and no
\* goroutine is left that would send.
Quiescent ==
    /\ jobQueue = <<>>
    /\ running = {}
    /\ retries = {}
    /\ resume.pc = "done"

NoRestartYet == env.restarts = MaxRestarts

\* The row of job j is for a staging upload.
IsUpload(j) == jobs[j].upload_key \in AllKeys

\* C1: once the recovery goroutine of an engine start has finished, every job
\* whose row was neither ready nor failed at that start has been enqueued.
C1_RestartPicksUp == resume.pc = "done" => owed = {}

\* C2: a job id is never in the channel twice and never inside processJob in
\* two workers.
C2_OneWorkerPerJob ==
    /\ \A i, k \in DOMAIN jobQueue : jobQueue[i].id = jobQueue[k].id => i = k
    /\ \A p, q \in running : p.job.id = q.job.id => p = q

\* C3: while the engine keeps running, a job does not stay pending,
\* downloading or processing: when nothing is in flight any more, every job is
\* ready or failed.
C3_EndsReadyOrFailed ==
    (NoRestartYet /\ Quiescent) => \A j \in DOMAIN jobs : Terminal(j)

\* C4: at most one asset row exists with a given content hash.
C4_OneAssetPerHash ==
    \A a, b \in assets : a.content_hash = b.content_hash => a = b

\* C4 witness: two uploads of identical bytes were processed, one of them
\* after its INSERT of the asset was rejected.
C4_Witness ==
    /\ Len(jobs) >= 2
    /\ IsUpload(1) /\ IsUpload(2)
    /\ jobs[1].upload_key # jobs[2].upload_key
    /\ jobs[1].status = StatusReady /\ jobs[2].status = StatusReady
    /\ jobs[1].attempts + jobs[2].attempts = 1
    /\ Cardinality(assets) = 1

\* C5: two jobs queued for two different staging keys with identical bytes:
\* when nothing is in flight any more, both are ready, exactly one asset row
\* exists, both jobs point to it and the second job's staging object is gone.
C5_DedupScenario ==
    (/\ Len(jobs) = 2
     /\ IsUpload(1) /\ IsUpload(2)
     /\ jobs[1].upload_key # jobs[2].upload_key
     /\ Staged[jobs[1].upload_key] = Staged[jobs[2].upload_key]
     /\ Quiescent)
    => /\ jobs[1].status = StatusReady
       /\ jobs[2].status = StatusReady
       /\ Cardinality(assets) = 1
       /\ \A a \in assets : jobs[1].asset_id = Ptr(a.id) /\ jobs[2].asset_id = Ptr(a.id)
       /\ jobs[2].upload_key \notin DOMAIN objects

\* C5 witness: the two jobs of the scenario have both run to their end.
C5_Witness ==
    /\ Len(jobs) = 2
    /\ IsUpload(1) /\ IsUpload(2)
    /\ jobs[1].upload_key # jobs[2].upload_key
    /\ Staged[jobs[1].upload_key] = Staged[jobs[2].upload_key]
    /\ Quiescent
    /\ jobs[2].status = StatusReady
    /\ jobs[2].asset_id # Nil

\* C6: the same upload key enqueued twice: two job rows, at most one asset,
\* and the second job ends ready.
C6_SameKeyTwice ==
    (/\ Len(jobs) = 2
     /\ IsUpload(1)
     /\ jobs[1].upload_key = jobs[2].upload_key
     /\ Quiescent)
    => /\ Cardinality(assets) <= 1
       /\ jobs[2].status = StatusReady

\* C7: a row that is failed has attempts = 3 and its job is not enqueued
\* again; a row set back to pending after a failed attempt has its job
\* waiting for, or back in, the channel.
C7_RetryPolicy ==
    \A j \in DOMAIN jobs :
       /\ jobs[j].status = StatusFailed => jobs[j].attempts = MaxAttempts /\ ~Held(j)
       /\ (NoRestartYet /\ jobs[j].status = StatusPending /\ jobs[j].attempts > 0)
             => (jobs[j].attempts < MaxAttempts /\ Held(j))

\* C8: a job whose upload ValidateImage rejects is never set back to pending
\* after an attempt and never waits for a retry.
C8_ValidationPermanent ==
    \A j \in DOMAIN jobs :
       (IsUpload(j) /\ ~ValidateImage(Staged[jobs[j].upload_key], jobs[j].category))
         => /\ ~(jobs[j].status = StatusPending /\ jobs[j].attempts > 0)
            /\ ~InRetry(j)

\* The derivative rows of asset a.
DerivativesOf(a) == {d \in derivs : d.asset_id = a.id}

\* C9: a ready asset has processed_at set and at least one derivative row.
C9_ReadyHasDerivatives ==
    \A a \in assets :
       a.status = StatusReady => a.processed_at # NULL /\ DerivativesOf(a) # {}

\* The derivative objects in the bucket under v{version} of a hash.
UploadedFor(hash, version) ==
    {k \in DOMAIN objects : k[1] = "derivatives" /\ k[3] = hash /\ k[4] = version}

\* C10: for a ready asset the storage keys of its derivative rows are the
\* derivative objects uploaded for its stored version, each of the form
\* derivatives/{hash[:2]}/{hash}/v{version}/{name}.{format}.
C10_RowsMatchVersion ==
    \A a \in assets :
       a.status = StatusReady =>
         /\ {d.storage_key : d \in DerivativesOf(a)}
               = UploadedFor(a.content_hash, a.version)
         /\ \A d \in DerivativesOf(a) :
               d.storage_key = DerivativeKey(a.content_hash, a.version,
                                             d.rendition_name, d.format)

\* The row of job j is for a reprocess of the canonical original of a hash.
IsReprocessRow(j) == \E a \in assets : jobs[j].upload_key = OriginalKey(a.content_hash)

\* The asset row a job row points to.
AssetOf(j) == CHOOSE a \in assets : jobs[j].asset_id = Ptr(a.id)

\* C11: a reprocess job that ended ready leaves the stored version of its
\* asset above the initial version 1, with derivative rows whose keys are
\* under that stored version, and the objects of version 1 still in the bucket.
C11_ReprocessBumpsVersion ==
    \A j \in DOMAIN jobs :
       (IsReprocessRow(j) /\ jobs[j].status = StatusReady /\ jobs[j].asset_id # Nil)
         => /\ AssetOf(j).version >= 2
            /\ \E d \in DerivativesOf(AssetOf(j)) : d.storage_key[4] = AssetOf(j).version
            /\ UploadedFor(AssetOf(j).content_hash, 1) # {}

\* C12: once the asset_id of a job row is set, no step changes or clears it.
C12_AssetIdStable ==
    [][\A j \in DOMAIN jobs :
          jobs[j].asset_id # Nil => jobs'[j].asset_id = jobs[j].asset_id]_vars

\* C13: after Stop, no step of an interrupted worker changes the status,
\* the attempts or the last_error of a job row.
C13_StopLeavesRows ==
    [][stopped => \A j \in DOMAIN jobs :
                     /\ jobs'[j].status = jobs[j].status
                     /\ jobs'[j].attempts = jobs[j].attempts
                     /\ jobs'[j].last_error = jobs[j].last_error]_vars

\* C14: while the engine keeps running, a job whose enqueue found the channel
\* full does not stay behind: once nothing is in flight, no row is left
\* pending at attempts 0.
C14_DroppedEnqueuePickedUp ==
    (NoRestartYet /\ Quiescent)
      => \A j \in DOMAIN jobs : ~(jobs[j].status = StatusPending /\ jobs[j].attempts = 0)

\* C15: every job reference in the channel has its row in the store; a
\* QueueProcessing or QueueReprocessing whose CreateJob failed has sent nothing.
C15_RowBeforeEnqueue ==
    \A i \in DOMAIN jobQueue : jobQueue[i].id \in DOMAIN jobs

\* C15 witness: one CreateJob has failed (the only failure that needs no
\* worker), and the one job whose CreateJob succeeded waits in the channel.
C15_Witness ==
    /\ env.faults < MaxFaults
    /\ Len(jobs) = 1
    /\ jobs[1].status = StatusPending /\ jobs[1].attempts = 0
    /\ Len(jobQueue) = 1 /\ Head(jobQueue).id = 1
    /\ running = {} /\ retries = {}

\* C16: QueueProcessing writes a job row only for an upload key under
\* uploads/tmp/{userID}/ of the user it is called for.
C16_QueueValidatesKey ==
    \A j \in DOMAIN jobs :
       jobs[j].upload_key[1] = "uploads"
         => HasUserPrefix(jobs[j].upload_key, jobs[j].user_id)

\* The requests the resolution is compared on.
QueryNames == {"original", "profile_48", "profile_200", "profile_400", "cover_640",
               "thumb"}
QueryFormats == {"", "avif", "webp", "jpeg", "jpg", "png"}

\* The reference resolution: the candidates are the rows of the asset with
\* exactly the rendition name, else those whose name begins with the category
\* prefix of the name (as cover_ for cover_640), else all rows.
RefCandidates(a, name) ==
    LET all == DerivativesOf(a)
        exact == {d \in all : d.rendition_name = name}
        cut == StringsIndex(Chars(name), "_") + 1
        shared == IF cut = 0 THEN {}
                  ELSE {d \in all : HasPrefix(Chars(d.rendition_name),
                                               SubSeq(Chars(name), 1, cut))}
    IN IF exact # {} THEN exact ELSE IF shared # {} THEN shared ELSE all

\* The priority avif > webp > jpeg > png; JPEG derivatives carry the format
\* name jpg.
RefPriority == << {"avif"}, {"webp"}, {"jpeg", "jpg"}, {"png"} >>

\* The formats the reference picks among the candidates.
RefFormats(cands, preferredFormat) ==
    IF \E d \in cands : d.format = preferredFormat THEN {preferredFormat}
    ELSE LET has(i) == \E d \in cands : d.format \in RefPriority[i]
             first == CHOOSE i \in DOMAIN RefPriority :
                         has(i) /\ \A k \in 1..(i - 1) : ~has(k)
         IN RefPriority[first]

RefDerivativeKey(a, name, preferredFormat) ==
    IF name = "original"
      THEN {KeyResult(OriginalKey(a.content_hash), a.original_format)}
      ELSE {KeyResult(d.storage_key, d.format) :
              d \in {c \in RefCandidates(a, name) :
                       c.format \in RefFormats(RefCandidates(a, name), preferredFormat)}}

QueryHashes == {ComputeContentHash(img) : img \in Images}

\* C18: GetDerivativeKey fails with "asset not found" when no asset has the
\* hash, with "asset not ready" for every rendition name when the asset is not
\* ready, with "no derivatives found" when a ready asset has no derivative to
\* return; it returns a key only for a ready asset.
C18_NotReadyNotFound ==
    \A h \in QueryHashes, name \in QueryNames, f \in QueryFormats :
       LET r == GetDerivativeKey(h, name, f) IN
       /\ AssetsByHash(h) = {} => r = {KeyError("asset not found")}
       /\ \A a \in AssetsByHash(h) :
            /\ a.status # StatusReady => r = {KeyError("asset not ready")}
            /\ (a.status = StatusReady /\ name # "original" /\ DerivativesOf(a) = {})
                  => r = {KeyError("no derivatives found")}
       /\ \A x \in r :
            x.err = "" => \E a \in AssetsByHash(h) : a.status = StatusReady

\* C18 witness: one asset is not ready yet while another is ready without
\* any derivative, and no asset has the hash of a third upload.
C18_Witness ==
    /\ \E a \in assets : a.status \notin {StatusReady, StatusFailed}
    /\ \E a \in assets : a.status = StatusReady /\ DerivativesOf(a) = {}
    /\ \E h \in QueryHashes : AssetsByHash(h) = {}

\* The uploads that are over a limit: more than MaxBytes bytes, wider or
\* higher than MaxDimension, or more than MaxPixels pixels.
Oversize(img) ==
    LET i == ImageInfo(img) IN
    \/ i.size > MaxBytes
    \/ i.width > MaxDimension
    \/ i.height > MaxDimension
    \/ i.width * i.height > MaxPixels

\* C19: an upload over the size, dimension or pixel limit produces nothing:
\* no asset row, no stored object and no derivative row for its bytes, and
\* once the service is idle its job is failed.
C19_OversizeProducesNothing ==
    \A j \in DOMAIN jobs :
       (jobs[j].upload_key \in StagingKeys /\ Oversize(Staged[jobs[j].upload_key])) =>
          LET h == ComputeContentHash(Staged[jobs[j].upload_key]) IN
          /\ jobs[j].asset_id = Nil
          /\ AssetsByHash(h) = {}
          /\ ~\E d \in derivs : d.storage_key[3] = h
          /\ ~\E k \in DOMAIN objects : k[1] \in {"originals", "derivatives"} /\ k[3] = h
          /\ Quiescent => jobs[j].status = StatusFailed

\* C20: when the worker completes a job whose first attempt failed at the
\* blob GET, the row ends ready with attempts = 2 and an empty last_error.
C20_SecondAttemptCounted ==
    [][\A p \in running :
         (/\ p.pc = "finish"
          /\ p.job.attempts = 1
          /\ p.job.lastError = ErrDownload
          /\ p \notin running')
         => /\ jobs'[p.job.id].status = StatusReady
            /\ jobs'[p.job.id].attempts = 2
            /\ jobs'[p.job.id].last_error = ""]_vars

\* The job ids of a list of job objects.
IdsOf(list) == {list[i].id : i \in DOMAIN list}

\* C21: the list the recovery goroutine takes at its scan holds exactly the
\* rows that are pending at that moment (none that is downloading, processing
\* or uploading), and the goroutine sends nothing but the jobs of that list.
C21_ResumeOnlyPending ==
    [][/\ (resume.pc = "sleep" /\ resume'.pc # "sleep")
           => IdsOf(resume'.todo) = {j \in DOMAIN jobs : jobs[j].status = StatusPending}
       /\ (resume.pc = "send" /\ resume' # resume /\ resume'.pc # "sleep")
           => /\ jobQueue' = Append(jobQueue, Head(resume.todo))
              /\ IdsOf(resume'.todo) = IdsOf(resume.todo) \ {Head(resume.todo).id}]_vars

\* C21 witness: after a restart the recovery goroutine has finished, the
\* engine is idle, and a row that was downloading or processing at the start
\* is still so: it was not enqueued.
C21_Witness ==
    /\ env.restarts < MaxRestarts
    /\ Quiescent
    /\ \E j \in DOMAIN jobs : jobs[j].status \in {StatusDownloading, StatusProcessing}
    /\ \E j \in DOMAIN jobs : jobs[j].status = StatusReady

\* The encodings stored for rendition r of asset a.
EncodingsOf(a, r) ==
    {Export(d.format) : d \in {x \in DerivativesOf(a) : x.rendition_name = r.name}}

ImageOf(a) == CHOOSE img \in Images : ComputeContentHash(img) = a.content_hash

\* C23 as stated: a ready asset has the rows of a rendition of its ladder
\* exactly when its source is not strictly smaller than the target in width
\* and in height.
C23_SkipBothAxes ==
    \A a \in assets : \A r \in Range(GetRenditionsForCategory(a.category)) :
       a.status = StatusReady =>
          (EncodingsOf(a, r) = {}
             <=> (ImageInfo(ImageOf(a)).width < r.width
                  /\ ImageInfo(ImageOf(a)).height < r.height))

\* C23 amended: a ready asset has the rows of a rendition of its ladder
\* exactly unless the target is wider than the source and either has no
\* target height (fit to width) or is higher than the source.
C23_SkipNoUpscale ==
    \A a \in assets : \A r \in Range(GetRenditionsForCategory(a.category)) :
       a.status = StatusReady =>
          (EncodingsOf(a, r) = {}
             <=> (r.width > ImageInfo(ImageOf(a)).width
                  /\ (r.height = 0 \/ r.height > ImageInfo(ImageOf(a)).height)))

\* C23 witness: the 320x180 cover is ready with cover_320 and without
\* cover_640, and the 32x32 gallery upload is ready without gallery_320.
C23_Witness ==
    \E a, b \in assets :
       /\ a.status = StatusReady /\ ImageOf(a) = "imgCover"
       /\ \E d \in DerivativesOf(a) : d.rendition_name = "cover_320"
       /\ ~\E d \in DerivativesOf(a) : d.rendition_name = "cover_640"
       /\ b.status = StatusReady /\ ImageOf(b) = "imgTiny"
       /\ ~\E d \in DerivativesOf(b) : d.rendition_name = "gallery_320"

\* C24: in the upload step of a job at most SemCap PutObject calls are in
\* flight.
C24_AtMostTenUploads == \A p \in running : p.inflight <= 10

\* C24 witness: a job with more outputs than slots has every slot taken
\* and goroutines waiting for one.
C24_Witness == \E p \in running : p.pc = "upload" /\ p.inflight = 10 /\ p.waiting > 0

\* C25: a job whose attempt ended with a failure of the transformer or of a
\* derivative upload is marked failed, as its asset is: its row is not
\* pending.
C25_FailureMarksBoth ==
    \A j \in DOMAIN jobs :
       jobs[j].last_error \in {ErrProcessing, ErrUpload} =>
          jobs[j].status = StatusFailed

\* C26: a step in which MoveObject, the DeleteObject of the staging upload
\* or CreateDerivative fails either completes the job (row ready, attempts as
\* before, no error) or leaves the row as it is and the worker before the
\* final updates with the same attempts counter.
C26_BestEffortNeverFails ==
    [][env'.faults < env.faults =>
         \A p \in running :
            \/ p \in running'
            \/ /\ [p EXCEPT !.pc = "finish"] \in running'
               /\ jobs'[p.job.id] = jobs[p.job.id]
            \/ /\ jobs'[p.job.id].status = StatusReady
               /\ jobs'[p.job.id].attempts = p.job.attempts
               /\ jobs'[p.job.id].last_error = ""
               /\ \A job \in retries' : job.id = p.job.id => job \in retries]_vars

\* C26 witness: a job is ready at its first attempt although a best-effort
\* call failed: its staging object was neither moved nor deleted, or a row of
\* its asset is missing for a stored object.
C26_Witness ==
    /\ env.faults < MaxFaults
    /\ \E j \in DOMAIN jobs :
         /\ jobs[j].status = StatusReady
         /\ jobs[j].attempts = 0
         /\ jobs[j].upload_key \in DOMAIN objects
    /\ \A j \in DOMAIN jobs : jobs[j].attempts = 0

\* C27: an asset is uploading or ready only with outputs of the transformer:
\* when every rendition failed the attempt ended with an error instead.
C27_NoEmptyOutput ==
    \A a \in assets :
       a.status \in {StatusUploading, StatusReady} => DerivativesOf(a) # {}

\* C28: when the INSERT of a worker's new asset meets a row with the same
\* content hash, the worker goes on to the transformer in the same attempt
\* and the attempts counter of its job stays as it is.
C28_ConflictRecovers ==
    [][\A p \in running :
         (/\ p.pc = "asset"
          /\ ~p.existing
          /\ AssetsByHash(p.hash) # {}
          /\ p \notin running')
         => /\ \E q \in running' : q.job = p.job /\ q.pc = "transform"
            /\ jobs'[p.job.id].attempts = p.job.attempts]_vars

C30_DistinctVersions ==
    \A p, q \in running :
       (/\ p.job.id # q.job.id
        /\ p.job.isReprocess /\ q.job.isReprocess
        /\ p.pc # "fetch" /\ q.pc # "fetch"
        /\ p.hash = q.hash)
       => p.version # q.version

\* C31: a job whose processing panicked in a worker is marked failed with the
\* panic in its last_error.
C31_PanicRecovered ==
    \A g \in panicked :
       g.who = "worker" =>
          /\ jobs[g.job].status = StatusFailed
          /\ jobs[g.job].last_error # ""

\* C32: no goroutine of the engine panics on a send: after Stop closed the
\* channel, neither the recovery goroutine nor a retry goroutine sends on it.
C32_NoSendOnClosed == \A g \in panicked : g.who \notin {"retry", "resume"}

\* C33: from any moment after Stop at which the process is alive, the workers
\* leave processJob and exit with the process still alive, so that the
\* s.wg.Wait() of Stop returns.
C33_StopTerminates ==
    (stopped /\ panicked = {}) ~> (running = {} /\ panicked = {})

\* C34: once a job row is ready or failed, no step changes its status, its
\* attempts or its asset_id.
C34_TerminalAbsorbing ==
    [][\A j \in DOMAIN jobs :
          Terminal(j) => /\ jobs'[j].status = jobs[j].status
                         /\ jobs'[j].attempts = jobs[j].attempts
                         /\ jobs'[j].asset_id = jobs[j].asset_id]_vars

\* C35: a job that resumePendingJobs enqueued is processed with the
\* IsReprocess its creator gave it: true exactly for the jobs of
\* QueueReprocessing, whose upload key is the canonical original of an asset.
C35_FlagSurvivesStore ==
    \A p \in running :
       p.job.src = "resume" => p.job.isReprocess = IsReprocessRow(p.job.id)

\* C36: no step removes the canonical original of an asset from the bucket.
C36_OriginalKept ==
    [][\A a \in assets :
          OriginalKey(a.content_hash) \in DOMAIN objects
             => OriginalKey(a.content_hash) \in DOMAIN objects']_vars

\* C37: a step of a worker whose job is not a reprocess job leaves every
\* ready asset ready.
C37_UploadKeepsReady ==
    [][\A p \in running :
          (p \notin running' /\ ~p.job.isReprocess) =>
             \A a \in assets :
                a.status = StatusReady =>
                   \E b \in assets' : b.id = a.id /\ b.status = StatusReady]_vars

\* C38: the storage_key of every derivative row names an object of the
\* bucket.
C38_RowsNameObjects == \A d \in derivs : d.storage_key \in DOMAIN objects

\* An attempt whose upload failed left derivative objects without rows, and
\* an attempt that succeeded inserted rows.
C38_Witness ==
    /\ derivs # {}
    /\ \E k \in DOMAIN objects :
          /\ k[1] = "derivatives"
          /\ \A d \in derivs : d.storage_key # k

\* The calls of MoveObject: a stored object and another key.  The engine
\* calls it under job.UploadKey != originalKey.
MoveCalls ==
    {c \in (DOMAIN objects) \X (DOMAIN objects \cup {OriginalKey(h) : h \in QueryHashes}) :
        c[1] # c[2]}

\* The bucket objs holds the bytes data under key.
HoldsAt(objs, key, data) == key \in DOMAIN objs /\ objs[key] = data

\* C39: whatever step of MoveObject fails, the bytes of the source are under
\* the source key or under the destination key when it returns; after a
\* failed copy the bucket is as it was, after a failed delete the bytes are
\* under both keys, and without an error they are under the destination only.
C39_MoveKeepsObject ==
    \A c \in MoveCalls, fail \in MoveFaults :
       LET r == MoveResult(objects, c[1], c[2], fail)
           data == objects[c[1]]
       IN /\ HoldsAt(r.objs, c[1], data) \/ HoldsAt(r.objs, c[2], data)
          /\ r.err = ErrCopy => r.objs = objects
          /\ r.err = ErrDelete =>
                HoldsAt(r.objs, c[1], data) /\ HoldsAt(r.objs, c[2], data)
          /\ r.err = "" =>
                c[1] \notin DOMAIN r.objs /\ HoldsAt(r.objs, c[2], data)

\* The only job of the engine is ready and the delete of its MoveObject
\* failed: the upload is under its staging key and under the canonical key.
C39_Witness ==
    /\ Len(jobs) = 1
    /\ jobs[1].status = StatusReady
    /\ HoldsAt(objects, jobs[1].upload_key, "imgA")
    /\ HoldsAt(objects, OriginalKey(ComputeContentHash("imgA")), "imgA")

====
